---- MODULE Spec2Model ----
(***************************************************************************)
(* Verification model of the paper-ECG digitization pipeline:              *)
(*   Conversion.convertECGLeads, ecgdigitize.signal.extraction.viterbi,    *)
(*   ecgdigitize.grid.extraction / frequency, ecgdigitize.signal.signal    *)
(*   and ecgdigitize.common.                                               *)
(*                                                                         *)
(* Conventions.                                                            *)
(*  - A binary mask is a sequence of pixel columns (left to right), each a *)
(*    sequence of 0/1 pixels (top to bottom): the value of                 *)
(*    np.swapaxes(binary.data, 0, 1).  Column and row numbers are 0-based  *)
(*    as in the source; TLA+ sequences are 1-based, so column c of a mask  *)
(*    is mask[c + 1].                                                      *)
(*  - A sample is an exact rational <<n, d>> in lowest terms with d > 0;   *)
(*    NaN is <<0, 0>>.  Arithmetic propagates NaN as IEEE-754 does.        *)
(*  - Distances are in 1/1000 pixel and angles in 1/1000 degree; a path    *)
(*    cost is kept as 360000 times the source's float cost, so that        *)
(*    0.5*d + 0.5*(1 - similarity) needs no division.                      *)
(*  - Grid periods are in 1/100 pixel (the interpolation granularity of    *)
(*    _estimateFirstPeakLocation), start times in milliseconds.            *)
(***************************************************************************)
EXTENDS Integers, Sequences, FiniteSets, TLC

(***************************************************************************)
(* Bounds of the model.                                                    *)
(***************************************************************************)
MaxLeads == 2          \* number of LeadId members a run may select
MaxStartSteps == 1     \* the largest start time, in steps of 36 ms
MaxGap == 1            \* empty columns at the left edge of a trace mask
MaxTail == 2           \* columns of a wide crop beyond OPTIMAL_ENDING_WIDTH
MaskHeight == 3        \* rows of a wide crop

(***************************************************************************)
(* Program constants.                                                      *)
(***************************************************************************)
OPTIMAL_ENDING_WIDTH == 20
MINIMUM_LOOK_BACK == 1
INTERPOLATION_RADIUS == 2
DEFAULT_TIME_SCALE == 25
DEFAULT_VOLTAGE_SCALE == 10

(***************************************************************************)
(* Generic helpers.                                                        *)
(***************************************************************************)
Abs(x) == IF x < 0 THEN -x ELSE x
Min2(a, b) == IF a < b THEN a ELSE b
Max2(a, b) == IF a > b THEN a ELSE b

RECURSIVE Gcd(_, _)
Gcd(a, b) == IF b = 0 THEN a ELSE Gcd(b, a % b)

RECURSIVE SeqSum(_)
SeqSum(s) == IF s = <<>> THEN 0 ELSE Head(s) + SeqSum(Tail(s))

RECURSIVE SeqMax(_)
SeqMax(s) == IF Len(s) = 1 THEN s[1] ELSE Max2(s[1], SeqMax(Tail(s)))

\* floor(a / b) for b > 0 and any integer a
FloorDiv(a, b) == a \div b

\* int(a / b): Python's int() truncates toward zero
TruncDiv(a, b) == IF a >= 0 THEN a \div b ELSE -((-a) \div b)

\* round(a / b) for a >= 0, b > 0: Python 3 rounds halves to the even integer
RoundDiv(a, b) ==
  LET q == a \div b
      r2 == 2 * (a % b)
  IN  IF r2 < b THEN q
      ELSE IF r2 > b THEN q + 1
      ELSE IF q % 2 = 0 THEN q ELSE q + 1

(***************************************************************************)
(* Samples: exact rationals with a NaN.                                    *)
(***************************************************************************)
NaN == <<0, 0>>
IsNaN(a) == a[2] = 0

Rat(n, d) ==
  LET g == Gcd(Abs(n), Abs(d))
      s == IF d < 0 THEN -1 ELSE 1
  IN  IF d = 0 THEN NaN ELSE <<s * (n \div g), s * (d \div g)>>

RInt(n) == <<n, 1>>
RSub(a, b) == IF IsNaN(a) \/ IsNaN(b) THEN NaN ELSE Rat(a[1] * b[2] - b[1] * a[2], a[2] * b[2])
RMul(a, b) == IF IsNaN(a) \/ IsNaN(b) THEN NaN ELSE Rat(a[1] * b[1], a[2] * b[2])
RNeg(a) == IF IsNaN(a) THEN NaN ELSE <<-a[1], a[2]>>
Zero == RInt(0)

(***************************************************************************)
(* common.py                                                               *)
(***************************************************************************)
lowerClamp(value, limit) == IF value > limit THEN value ELSE limit

RECURSIVE flatten(_)
flatten(listOfLists) ==
  IF listOfLists = <<>> THEN <<>>
  ELSE Head(listOfLists) \o flatten(Tail(listOfLists))

\* Python's sequence[lo:hi] with its treatment of negative and oversized bounds
PySlice(s, lo, hi) ==
  LET n == Len(s)
      l == IF lo < 0 THEN Max2(lo + n, 0) ELSE Min2(lo, n)
      h == IF hi < 0 THEN Max2(hi + n, 0) ELSE Min2(hi, n)
  IN  IF l >= h THEN <<>> ELSE SubSeq(s, l + 1, h)

Repeat(v, count) == [i \in 1..count |-> v]

\* padLeft that puts the zeros behind the samples
padLeftBehind(elements, count) == elements \o Repeat(Zero, count)

padLeft(elements, count) == Repeat(Zero, count) \o elements

padRight(elements, count) == elements \o Repeat(Zero, count)

\* Number of entries of `data` that Counter counts under the key of data[i]:
\* equal finite values share a key, every NaN is a key of its own.
CountOf(data, i) ==
  IF IsNaN(data[i]) THEN 1
  ELSE Cardinality({j \in 1..Len(data) : data[j] = data[i]})

\* Counter(data).most_common(1)[0][0]: the first key, in order of first
\* occurrence, whose count is the largest.
mode(data) ==
  LET best == CHOOSE i \in 1..Len(data) :
                /\ \A j \in 1..Len(data) : CountOf(data, j) <= CountOf(data, i)
                /\ \A j \in 1..(i - 1) : CountOf(data, j) < CountOf(data, i)
  IN  data[best]

\* numpy.mean of a list of periods given in 1/100 pixel, as an exact
\* rational number of pixels
mean(spacings) == Rat(SeqSum(spacings), 100 * Len(spacings))

(***************************************************************************)
(* signal/extraction/viterbi.py                                            *)
(***************************************************************************)
None == <<-1, -1>>
Point(x, y) == <<x, y>>

\* The loop of findContiguousRegions from position `index` on, with the
\* run start `start` (-1 for None) and the regions found so far.
RECURSIVE RegionScan(_, _, _, _)
RegionScan(oneDimImage, index, start, locations) ==
  IF index >= Len(oneDimImage) THEN locations
  ELSE LET pixel == oneDimImage[index + 1] IN
       IF pixel > 0 /\ start = -1
         THEN RegionScan(oneDimImage, index + 1, index, locations)
       ELSE IF pixel = 0 /\ start # -1
         THEN RegionScan(oneDimImage, index + 1, -1, Append(locations, <<start, index>>))
       ELSE RegionScan(oneDimImage, index + 1, start, locations)

findContiguousRegions(oneDimImage) == RegionScan(oneDimImage, 0, -1, <<>>)

\* findContiguousRegionCenters that reports the first row of every region
findContiguousRegionStarts(oneDimImage) ==
  LET regions == findContiguousRegions(oneDimImage)
  IN  [i \in 1..Len(regions) |-> regions[i][1]]

findContiguousRegionCenters(oneDimImage) ==
  LET regions == findContiguousRegions(oneDimImage)
  IN  [i \in 1..Len(regions) |-> (regions[i][1] + regions[i][2]) \div 2]

getPointLocations(image) ==
  [c \in 1..Len(image) |->
     LET rows == findContiguousRegionCenters(image[c])
     IN  [i \in 1..Len(rows) |-> Point(c - 1, rows[i])]]

DistanceTable ==
  <<
    <<1000, 1414, 2236, 3162, 4123, 5099>>,
    <<2000, 2236, 2828, 3606, 4472, 5385>>,
    <<3000, 3162, 3606, 4243, 5000, 5831>>,
    <<4000, 4123, 4472, 5000, 5657, 6403>>,
    <<5000, 5099, 5385, 5831, 6403, 7071>>,
    <<6000, 6083, 6325, 6708, 7211, 7810>>,
    <<7000, 7071, 7280, 7616, 8062, 8602>>,
    <<8000, 8062, 8246, 8544, 8944, 9434>>,
    <<9000, 9055, 9220, 9487, 9849, 10296>>,
    <<10000, 10050, 10198, 10440, 10770, 11180>>,
    <<11000, 11045, 11180, 11402, 11705, 12083>>,
    <<12000, 12042, 12166, 12369, 12649, 13000>>,
    <<13000, 13038, 13153, 13342, 13601, 13928>>,
    <<14000, 14036, 14142, 14318, 14560, 14866>>,
    <<15000, 15033, 15133, 15297, 15524, 15811>>,
    <<16000, 16031, 16125, 16279, 16492, 16763>>,
    <<17000, 17029, 17117, 17263, 17464, 17720>>,
    <<18000, 18028, 18111, 18248, 18439, 18682>>,
    <<19000, 19026, 19105, 19235, 19416, 19647>>,
    <<20000, 20025, 20100, 20224, 20396, 20616>>,
    <<21000, 21024, 21095, 21213, 21378, 21587>>,
    <<22000, 22023, 22091, 22204, 22361, 22561>>,
    <<23000, 23022, 23087, 23195, 23345, 23537>>,
    <<24000, 24021, 24083, 24187, 24331, 24515>>
  >>

AngleTable ==
  <<
    <<0, 45000, 63435, 71565, 75964, 78690>>,
    <<0, 26565, 45000, 56310, 63435, 68199>>,
    <<0, 18435, 33690, 45000, 53130, 59036>>,
    <<0, 14036, 26565, 36870, 45000, 51340>>,
    <<0, 11310, 21801, 30964, 38660, 45000>>,
    <<0, 9462, 18435, 26565, 33690, 39806>>,
    <<0, 8130, 15945, 23199, 29745, 35538>>,
    <<0, 7125, 14036, 20556, 26565, 32005>>,
    <<0, 6340, 12529, 18435, 23962, 29055>>,
    <<0, 5711, 11310, 16699, 21801, 26565>>,
    <<0, 5194, 10305, 15255, 19983, 24444>>,
    <<0, 4764, 9462, 14036, 18435, 22620>>,
    <<0, 4399, 8746, 12995, 17103, 21038>>,
    <<0, 4086, 8130, 12095, 15945, 19654>>,
    <<0, 3814, 7595, 11310, 14931, 18435>>,
    <<0, 3576, 7125, 10620, 14036, 17354>>,
    <<0, 3366, 6710, 10008, 13241, 16390>>,
    <<0, 3180, 6340, 9462, 12529, 15524>>,
    <<0, 3013, 6009, 8973, 11889, 14744>>,
    <<0, 2862, 5711, 8531, 11310, 14036>>,
    <<0, 2726, 5440, 8130, 10784, 13392>>,
    <<0, 2603, 5194, 7765, 10305, 12804>>,
    <<0, 2490, 4970, 7431, 9866, 12265>>,
    <<0, 2386, 4764, 7125, 9462, 11768>>
  >>

\* euclideanDistance(x, y) in 1/1000 pixel, for x >= 0
euclideanDistance(x, y) == IF x = 0 THEN 1000 * Abs(y) ELSE DistanceTable[x][Abs(y) + 1]

distanceBetweenPoints(firstPoint, secondPoint) ==
  euclideanDistance(Abs(firstPoint[1] - secondPoint[1]), firstPoint[2] - secondPoint[2])

\* y / euclideanDistance(x, y) divides by 0.0: ZeroDivisionError
angleFromOffsetsRaises(x, y) == x = 0 /\ y = 0

\* asin(y / euclideanDistance(x, y)) / pi * 180 in 1/1000 degree, for x >= 0
\* and (x, y) # (0, 0)
angleFromOffsets(x, y) ==
  IF x = 0 THEN (IF y > 0 THEN 90000 ELSE -90000)
  ELSE IF y >= 0 THEN AngleTable[x][y + 1] ELSE -AngleTable[x][(-y) + 1]

angleBetweenPoints(firstPoint, secondPoint) ==
  angleFromOffsets(secondPoint[1] - firstPoint[1], secondPoint[2] - firstPoint[2])

\* angleSimilarity that falls to 0 at a quarter turn: (90 - |difference|) / 90
angleSimilarityQuarterTurn(firstAngle, secondAngle) ==
  180000 - 2 * Abs(secondAngle - firstAngle)

\* 180000 * angleSimilarity(firstAngle, secondAngle), angles in 1/1000 degree
angleSimilarity(firstAngle, secondAngle) == 180000 - Abs(secondAngle - firstAngle)

\* score with the distance term left out: the angle term alone
scoreWithoutDistance(currentPoint, candidatePoint, candidateAngle) ==
  LET currentAngle == angleBetweenPoints(candidatePoint, currentPoint)
      angleValue == 180000 - angleSimilarity(currentAngle, candidateAngle)
  IN  angleValue

\* 360000 * score(currentPoint, candidatePoint, candidateAngle):
\* 0.5 * distance + 0.5 * (1 - angleSimilarity)
score(currentPoint, candidatePoint, candidateAngle) ==
  LET currentAngle == angleBetweenPoints(candidatePoint, currentPoint)
      angleValue == 180000 - angleSimilarity(currentAngle, candidateAngle)
      distanceValue == distanceBetweenPoints(currentPoint, candidatePoint)
  IN  180 * distanceValue + angleValue

\* the window that also takes the candidates of the starting column
AdjacentWindowInclusive(pointsByColumn, leftColumnIndex, rightColumnIndex) ==
  flatten(PySlice(pointsByColumn, leftColumnIndex, rightColumnIndex + 1))

\* list(common.flatten(pointsByColumn[leftColumnIndex:rightColumnIndex]))
AdjacentWindow(pointsByColumn, leftColumnIndex, rightColumnIndex) ==
  flatten(PySlice(pointsByColumn, leftColumnIndex, rightColumnIndex))

\* The window expansion loop of getAdjacent
RECURSIVE ExpandWindow(_, _, _)
ExpandWindow(pointsByColumn, leftColumnIndex, rightColumnIndex) ==
  LET result == AdjacentWindow(pointsByColumn, leftColumnIndex, rightColumnIndex)
  IN  IF Len(result) = 0 /\ leftColumnIndex >= 0
        THEN ExpandWindow(pointsByColumn, leftColumnIndex - 1, rightColumnIndex)
        ELSE result

\* The points getAdjacent yields (their records are read by the caller)
getAdjacent(pointsByColumn, startingColumn, minimumLookBack) ==
  LET rightColumnIndex == startingColumn
      leftColumnIndex == lowerClamp(startingColumn - minimumLookBack, 0)
      result == AdjacentWindow(pointsByColumn, leftColumnIndex, rightColumnIndex)
  IN  IF Len(result) = 0 /\ leftColumnIndex >= 0
        THEN ExpandWindow(pointsByColumn, leftColumnIndex - 1, rightColumnIndex)
        ELSE result

\* min(..., key = cost): the first candidate, in list order, of least
\* score + cumulative cost
RECURSIVE BestCandidate(_, _, _, _)
BestCandidate(point, adjacent, bestPathToPoint, i) ==
  LET candidate == adjacent[i]
      total == score(point, candidate, bestPathToPoint[candidate].angle)
                 + bestPathToPoint[candidate].cost
  IN  IF i = Len(adjacent) THEN [cost |-> total, point |-> candidate]
      ELSE LET rest == BestCandidate(point, adjacent, bestPathToPoint, i + 1)
           IN  IF total <= rest.cost THEN [cost |-> total, point |-> candidate] ELSE rest

SeedRecord == [cost |-> 0, prev |-> None, angle |-> 0]

\* the table without base cases
SeedTableEmpty(pointsByColumn) ==
  [p \in {} |-> SeedRecord]

\* The table after the base cases: every point of column 0
SeedTable(pointsByColumn) ==
  LET seeds == flatten(PySlice(pointsByColumn, 0, 1))
  IN  [p \in {seeds[i] : i \in 1..Len(seeds)} |-> SeedRecord]

\* One iteration of the inner loop of the table construction
\* ("tripped" records a failure of the assertion inside getAdjacent)
TableStep(pointsByColumn, table, point) ==
  LET adjacent == getAdjacent(pointsByColumn, point[1], MINIMUM_LOOK_BACK)
      known == \A i \in 1..Len(adjacent) : adjacent[i] \in DOMAIN table.best
  IN  IF table.tripped \/ ~known THEN [table EXCEPT !.tripped = TRUE]
      ELSE IF Len(adjacent) = 0
        THEN [table EXCEPT !.best = (point :> SeedRecord) @@ table.best]
      ELSE LET b == BestCandidate(point, adjacent, table.best, 1)
           IN  [table EXCEPT !.best =
                  (point :> [cost |-> b.cost, prev |-> b.point,
                             angle |-> angleBetweenPoints(b.point, point)])
                  @@ table.best]

RECURSIVE BuildTable(_, _, _, _)
BuildTable(pointsByColumn, rest, i, table) ==
  IF i > Len(rest) THEN table
  ELSE BuildTable(pointsByColumn, rest, i + 1, TableStep(pointsByColumn, table, rest[i]))

\* bestPathToPoint at the end of the column loop
bestPathTable(pointsByColumn) ==
  BuildTable(pointsByColumn,
             flatten(PySlice(pointsByColumn, 1, Len(pointsByColumn))), 1,
             [best |-> SeedTable(pointsByColumn), tripped |-> FALSE])

\* min(optimalCandidates, key = totalScore): the first of least cumulative cost
RECURSIVE BestEnding(_, _, _)
BestEnding(candidates, best, i) ==
  IF i = Len(candidates) THEN candidates[i]
  ELSE LET rest == BestEnding(candidates, best, i + 1)
       IN  IF best[candidates[i]].cost <= best[rest].cost THEN candidates[i] ELSE rest

\* The back-trace loop: end point first, seed last
RECURSIVE TraceBack(_, _)
TraceBack(best, current) ==
  IF current = None THEN <<>>
  ELSE <<current>> \o TraceBack(best, best[current].prev)

\* interpolate whose line is anchored at the height of fromPoint
InterpolatedYFromStart(fromPoint, toPoint, x) ==
  Rat((toPoint[2] - fromPoint[2]) * (x - toPoint[1])
        + fromPoint[2] * (toPoint[1] - fromPoint[1]),
      toPoint[1] - fromPoint[1])

\* f(x) of interpolate(fromPoint, toPoint)
InterpolatedY(fromPoint, toPoint, x) ==
  Rat((toPoint[2] - fromPoint[2]) * (x - toPoint[1])
        + toPoint[2] * (toPoint[1] - fromPoint[1]),
      toPoint[1] - fromPoint[1])

\* The loop of convertPointsToSignal over points[i..]; signal[c + 1] is the
\* sample of column c
RECURSIVE FillSignal(_, _, _, _)
FillSignal(points, i, priorPoint, signal) ==
  IF i > Len(points) THEN signal
  ELSE LET point == points[i]
           gap == IsNaN(signal[point[1] + 2])
           filled == [c \in 1..Len(signal) |->
                        IF gap /\ c - 1 > point[1] /\ c - 1 < priorPoint[1]
                          THEN InterpolatedY(point, priorPoint, c - 1)
                        ELSE IF c - 1 = point[1] THEN RInt(point[2])
                        ELSE signal[c]]
       IN  FillSignal(points, i + 1, point, filled)

convertPointsToSignal(points) ==
  LET firstPoint == points[1]
      arraySize == firstPoint[1] + 1
      signal == [c \in 1..arraySize |->
                   IF c - 1 = firstPoint[1] THEN RInt(firstPoint[2]) ELSE NaN]
  IN  FillSignal(points, 2, firstPoint, signal)

\* Outcomes of a call: a value, None, or an exception that leaves the call
ArrayOf(data) == [kind |-> "array", data |-> data]
NoSignal == [kind |-> "None", data |-> <<>>]
Raised == [kind |-> "raised", data |-> <<>>]

extractSignal(binary) ==
  LET pointsByColumn == getPointLocations(binary)
      points == flatten(pointsByColumn)
      table == bestPathTable(pointsByColumn)
      optimalCandidates == getAdjacent(pointsByColumn, Len(binary), OPTIMAL_ENDING_WIDTH)
      bestPath == TraceBack(table.best, BestEnding(optimalCandidates, table.best, 1))
  IN  IF Len(points) = 0 THEN NoSignal
      ELSE IF table.tripped THEN Raised
      ELSE IF \E i \in 1..Len(optimalCandidates) :
                optimalCandidates[i] \notin DOMAIN table.best THEN Raised
      ELSE IF Len(optimalCandidates) = 0 THEN Raised
      ELSE ArrayOf(convertPointsToSignal(bestPath))

(***************************************************************************)
(* signal/signal.py                                                        *)
(***************************************************************************)
\* verticallyScaleECGSignal without the final * -1
verticallyScaleUnflipped(signal, gridSizeInPixels, millimetersPerMilliVolt) ==
  LET microVoltsPerPixel ==
        Rat(1000 * gridSizeInPixels[2], gridSizeInPixels[1] * millimetersPerMilliVolt)
  IN  [i \in 1..Len(signal) |-> RMul(signal[i], microVoltsPerPixel)]

\* signal * microVoltsPerPixel * -1 with gridSizeInMillimeters = 1;
\* gridSizeInPixels is a rational number of pixels
verticallyScaleECGSignal(signal, gridSizeInPixels, millimetersPerMilliVolt) ==
  LET microVoltsPerPixel ==
        Rat(1000 * gridSizeInPixels[2], gridSizeInPixels[1] * millimetersPerMilliVolt)
  IN  [i \in 1..Len(signal) |-> RNeg(RMul(signal[i], microVoltsPerPixel))]

\* seconds per pixel, as a rational
ecgSignalSamplingPeriod(gridSizeInPixels, millimetersPerSecond) ==
  Rat(gridSizeInPixels[2], gridSizeInPixels[1] * millimetersPerSecond)

zeroECGSignal(signal) ==
  LET zeroPoint == mode(signal)
  IN  [i \in 1..Len(signal) |-> RSub(signal[i], zeroPoint)]

(***************************************************************************)
(* grid/frequency.py and grid/extraction.py                                *)
(*                                                                         *)
(* An autocorrelation vector is described by its length, the index that    *)
(* scipy.signal.find_peaks reports as first qualifying peak (-1 when there *)
(* is none) and the position, in 1/100 sample from the left end of the     *)
(* interpolation window, at which the fitted curve is largest.             *)
(***************************************************************************)
Strengths(len, peak, refine) == [len |-> len, peak |-> peak, refine |-> refine]

ValueOf(v) == [kind |-> "value", v |-> v]
NoValue == [kind |-> "None", v |-> 0]
Failure == [kind |-> "Failure", v |-> 0]
RaisedValue == [kind |-> "raised", v |-> 0]

Truthy(r) == r.kind = "value" /\ r.v # 0

\* _estimateFirstPeakLocation with interpolate = True: the value is in
\* 1/100 sample; interp1d raises when x and y differ in length
estimateFirstPeakLocation(signal) ==
  LET index == signal.peak
      start == index - INTERPOLATION_RADIUS
      end == index + INTERPOLATION_RADIUS
      xs == end + 1 - start
      ys == Len(PySlice([i \in 1..signal.len |-> 0], start, end + 1))
  IN  IF index = -1 THEN NoValue
      ELSE IF xs # ys THEN RaisedValue
      ELSE ValueOf(100 * start + signal.refine)

\* _estimateFirstPeakLocation with interpolate = False
firstPeakIndex(signal) ==
  IF signal.peak = -1 THEN NoValue ELSE ValueOf(signal.peak)

estimateFrequencyViaAutocorrelation(columnFrequencyStrengths, rowFrequencyStrengths) ==
  LET columnFrequency == estimateFirstPeakLocation(columnFrequencyStrengths)
      rowFrequency == estimateFirstPeakLocation(rowFrequencyStrengths)
  IN  IF columnFrequency.kind = "raised" \/ rowFrequency.kind = "raised" THEN RaisedValue
      ELSE IF Truthy(columnFrequency) /\ Truthy(rowFrequency) THEN columnFrequency
      ELSE IF Truthy(rowFrequency) THEN rowFrequency
      ELSE IF Truthy(columnFrequency) THEN columnFrequency
      ELSE Failure

\* The preview is described by the columns i at which a segment i -> i + 1
\* is drawn; signal.shape of None raises AttributeError
overlaySignalOnImage(signal) ==
  IF signal.kind # "array" THEN [kind |-> "raised", segments |-> {}]
  ELSE [kind |-> "image",
        segments |-> {i \in 0..(Len(signal.data) - 2) :
                        ~IsNaN(signal.data[i + 1]) /\ ~IsNaN(signal.data[i + 2])}]

(***************************************************************************)
(* Conversion.convertECGLeads                                              *)
(*                                                                         *)
(* A dict is a sequence of entries [id, v] in insertion order.             *)
(***************************************************************************)
Entry(id, v) == [id |-> id, v |-> v]
WithValues(dict, values) == [i \in 1..Len(dict) |-> Entry(dict[i].id, values[i])]
Lookup(dict, id) == dict[CHOOSE i \in 1..Len(dict) : dict[i].id = id].v
Ids(dict) == {dict[i].id : i \in 1..Len(dict)}
Values(dict) == [i \in 1..Len(dict) |-> dict[i].v]

\* the non-failing spacings, in lead order
NonFailing(gridSpacings) ==
  LET vals == Values(gridSpacings)
      IsValue(r) == r.kind # "Failure"
      kept == SelectSeq(vals, IsValue)
  IN  [i \in 1..Len(kept) |-> kept[i].v]

\* int(startTime / samplingPeriod), startTime in milliseconds
PadCount(startTimeMs, samplingPeriod) ==
  TruncDiv(startTimeMs * samplingPeriod[2], 1000 * samplingPeriod[1])

(***************************************************************************)
(* Inputs of the model                                                     *)
(***************************************************************************)
RECURSIVE Ascending(_)
Ascending(S) ==
  IF S = {} THEN <<>>
  ELSE LET m == CHOOSE a \in S : \A b \in S : a <= b
       IN  <<m>> \o Ascending(S \ {m})

EmptyColumn(h) == [r \in 1..h |-> 0]
PixelColumn(h, row) == [r \in 1..h |-> IF r - 1 = row THEN 1 ELSE 0]

\* row of the trace in column c of a crop of height h: one row above the
\* middle row in every third column, the middle row elsewhere
TraceRow(c, h) == IF c % 3 = 0 THEN (h \div 2) - 1 ELSE h \div 2

\* a w x h mask whose columns gap .. w-1 hold a one-pixel trace
TraceMask(w, h, gap) ==
  [c \in 1..w |-> IF c - 1 < gap THEN EmptyColumn(h) ELSE PixelColumn(h, TraceRow(c - 1, h))]

WideWidth == OPTIMAL_ENDING_WIDTH + MaxTail

\* common.autocorrelation yields len(signal) // 2 coefficients
AutocorrelationLength(n) == n \div 2

\* find_peaks reports interior samples only, and never sample 1: the
\* coefficient at shift 0 is 1, the largest value a coefficient can take
PeakIndices(len) == {-1} \cup 2..(len - 2)

\* (column peak, row peak) of the grid mask of a w x h lead image: none, a
\* column peak, a row peak only, a column peak next to the right end
GridCases(w, h) ==
  {gc \in {<<-1, -1>>, <<4, -1>>, <<-1, 2>>, <<AutocorrelationLength(w) - 2, -1>>} :
     /\ gc[1] \in PeakIndices(AutocorrelationLength(w))
     /\ gc[2] \in PeakIndices(AutocorrelationLength(h))}

\* A lead image (a crop) is described by what the detectors make of it:
\* its size, the first column of the one-pixel trace that
\* signal_detection.adaptive isolates (traceStart = width: no trace), and
\* the two autocorrelation vectors of the grid_detection.allDarkPixels mask.
LeadImage(width, height, traceStart, columnPeak, rowPeak) ==
  [width |-> width, height |-> height, traceStart |-> traceStart,
   columns |-> Strengths(AutocorrelationLength(width), columnPeak,
                         100 * INTERPOLATION_RADIUS),
   rows |-> Strengths(AutocorrelationLength(height), rowPeak,
                      100 * INTERPOLATION_RADIUS + 50)]

\* rows of the narrow crop: the least height whose row autocorrelation can
\* hold a whole interpolation window
TallHeight == 2 * (2 * INTERPOLATION_RADIUS + 1)

\* <<width, height, traceStart>> of the crops: wide crops without trace and
\* with a trace from column 0 or MaxGap on, and a narrow, tall crop with a
\* trace in its last column only
LeadGeometries ==
  {<<WideWidth, MaskHeight, g>> : g \in {0, MaxGap, WideWidth}}
    \cup {<<MaxGap + 1, TallHeight, MaxGap>>}

LeadImages ==
  UNION {{LeadImage(geo[1], geo[2], geo[3], gc[1], gc[2]) :
            gc \in GridCases(geo[1], geo[2])} : geo \in LeadGeometries}

\* the mask signal_detection.adaptive returns for a lead image
adaptive(image) == TraceMask(image.width, image.height, image.traceStart)

StartTimes == {0, 36 * MaxStartSteps}

\* LeadId ordinals a run may select, and the insertion orders of the leads
\* mapping: ascending or descending
LeadIds == 0..(MaxLeads - 1)

Reverse(s) == [i \in 1..Len(s) |-> s[Len(s) + 1 - i]]

LeadOrders == {Ascending(S) : S \in SUBSET LeadIds} \cup {Reverse(Ascending(S)) : S \in SUBSET LeadIds}

(***************************************************************************)
(* ecgdigitize.py and visualization.py                                     *)
(*                                                                         *)
(***************************************************************************)
digitizeSignal(image) == extractSignal(adaptive(image))

digitizeGrid(image) == estimateFrequencyViaAutocorrelation(image.columns, image.rows)

(***************************************************************************)
(* State                                                                   *)
(***************************************************************************)
VARIABLES
  pc,             \* position inside convertECGLeads
  parameters,     \* InputParameters: leads (id -> [image, startTime]), scales
  signals,        \* leadId -> digitizeSignal outcome
  previews,       \* leadId -> overlay
  gridSpacings,   \* leadId -> digitizeGrid outcome
  scaledSignals,  \* leadId -> zeroed, vertically scaled signal
  paddedSignals,  \* leadId -> left-padded signal
  result,         \* what convertECGLeads hands back
  arg,            \* argument of a library function under test
  ret             \* its outcome

vars == <<pc, parameters, signals, previews, gridSpacings, scaledSignals,
          paddedSignals, result, arg, ret>>

pipelineVars == <<pc, parameters, signals, previews, gridSpacings, scaledSignals,
                  paddedSignals, result>>

Pending == [kind |-> "pending", signals |-> <<>>, previews |-> <<>>]
\* return None, None
ReturnNone == [kind |-> "failure", signals |-> <<>>, previews |-> <<>>]
\* an exception leaves convertECGLeads
RaisedResult == [kind |-> "raised", signals |-> <<>>, previews |-> <<>>]

\* the library functions under test are idle
NoCall == /\ arg = <<>>
          /\ ret = <<>>

Init ==
  /\ pc = "start"
  /\ \E ids \in LeadOrders :
       \E choice \in [1..Len(ids) -> LeadImages \X StartTimes] :
         parameters =
           [leads |-> [i \in 1..Len(ids) |->
                         Entry(ids[i], [image |-> choice[i][1], startTime |-> choice[i][2]])],
            timeScale |-> DEFAULT_TIME_SCALE,
            voltScale |-> DEFAULT_VOLTAGE_SCALE]
  /\ signals = <<>>
  /\ previews = <<>>
  /\ gridSpacings = <<>>
  /\ scaledSignals = <<>>
  /\ paddedSignals = <<>>
  /\ result = Pending
  /\ NoCall

leadImages == [i \in 1..Len(parameters.leads) |->
                 Entry(parameters.leads[i].id, parameters.leads[i].v.image)]

AnyKind(dict, kind) == \E i \in 1..Len(dict) : dict[i].v.kind = kind
AllKind(dict, kind) == \A i \in 1..Len(dict) : dict[i].v.kind = kind

\* Conversion.py 34-39: digitize every crop; return None, None when every
\* signal is a Failure instance
ExtractSignals ==
  /\ pc = "start"
  /\ signals' = WithValues(leadImages, [i \in DOMAIN leadImages |-> digitizeSignal(leadImages[i].v)])
  /\ IF AnyKind(signals', "raised")
       THEN pc' = "done" /\ result' = RaisedResult
     ELSE IF AllKind(signals', "Failure")
       THEN pc' = "done" /\ result' = ReturnNone
     ELSE pc' = "signals" /\ result' = result
  /\ UNCHANGED <<parameters, previews, gridSpacings, scaledSignals, paddedSignals, arg, ret>>

\* Conversion.py 41-45: an exception of overlaySignalOnImage leaves the call
BuildPreviews ==
  /\ pc = "signals"
  /\ IF AnyKind(WithValues(signals, [i \in DOMAIN signals |-> overlaySignalOnImage(signals[i].v)]), "raised")
       THEN pc' = "done" /\ result' = RaisedResult /\ previews' = previews
       ELSE /\ pc' = "previews"
            /\ result' = result
            /\ previews' = WithValues(signals, [i \in DOMAIN signals |-> overlaySignalOnImage(signals[i].v)])
  /\ UNCHANGED <<parameters, signals, gridSpacings, scaledSignals, paddedSignals, arg, ret>>

\* Conversion.py 47-57: an exception of digitizeGrid leaves the call;
\* return None, None when no spacing is left
EstimateGrid ==
  /\ pc = "previews"
  /\ IF AnyKind(WithValues(leadImages, [i \in DOMAIN leadImages |-> digitizeGrid(leadImages[i].v)]), "raised")
       THEN pc' = "done" /\ result' = RaisedResult /\ gridSpacings' = gridSpacings
       ELSE /\ gridSpacings' = WithValues(leadImages, [i \in DOMAIN leadImages |-> digitizeGrid(leadImages[i].v)])
            /\ IF Len(NonFailing(gridSpacings')) = 0
                 THEN pc' = "done" /\ result' = ReturnNone
                 ELSE pc' = "grid" /\ result' = result
  /\ UNCHANGED <<parameters, signals, previews, scaledSignals, paddedSignals, arg, ret>>

\* common.mean(spacings), Conversion.py 59
gridHeightInPixels == mean(NonFailing(gridSpacings))

\* Conversion.py 72-74
samplingPeriod == ecgSignalSamplingPeriod(gridHeightInPixels, parameters.timeScale)

ScaledSignal(signal) ==
  verticallyScaleECGSignal(zeroECGSignal(signal.data), gridHeightInPixels,
                           parameters.voltScale)

LeftPadded(entry) ==
  Entry(entry.id,
        padLeft(entry.v, PadCount(Lookup(parameters.leads, entry.id).startTime,
                                  samplingPeriod)))

\* Conversion.py 59-90
ScaleAndAlign ==
  /\ pc = "grid"
  /\ scaledSignals' = WithValues(signals, [i \in DOMAIN signals |-> ScaledSignal(signals[i].v)])
  /\ paddedSignals' = [i \in 1..Len(scaledSignals') |-> LeftPadded(scaledSignals'[i])]
  /\ LET maxLength == SeqMax([i \in 1..Len(paddedSignals') |-> Len(paddedSignals'[i].v)])
         PadToMax(signal) == padRight(signal, maxLength - Len(signal))
     IN  result' = [kind |-> "ok", signals |-> WithValues(paddedSignals', [i \in DOMAIN paddedSignals' |-> PadToMax(paddedSignals'[i].v)]),
                    previews |-> previews]
  /\ pc' = "done"
  /\ UNCHANGED <<parameters, signals, previews, gridSpacings, arg, ret>>

Next == ExtractSignals \/ BuildPreviews \/ EstimateGrid \/ ScaleAndAlign

Spec == Init /\ [][Next]_vars

(***************************************************************************)
(* State functions used by the properties                                  *)
(***************************************************************************)
\* what digitizeGrid makes of every lead image, in lead order
GridOutcomes == WithValues(leadImages, [i \in DOMAIN leadImages |-> digitizeGrid(leadImages[i].v)])

StartTimeOf(id) == Lookup(parameters.leads, id).startTime

\* index of the first non-NaN sample, -1 when every sample is NaN
FirstNonNaN(signal) ==
  IF \A i \in 1..Len(signal) : IsNaN(signal[i]) THEN -1
  ELSE (CHOOSE i \in 1..Len(signal) :
          ~IsNaN(signal[i]) /\ \A j \in 1..(i - 1) : IsNaN(signal[j])) - 1

\* leftmost column of a mask that holds a candidate point, -1 when none does
LeftmostCandidateColumn(mask) ==
  LET pointsByColumn == getPointLocations(mask)
      occupied == {c \in 1..Len(mask) : Len(pointsByColumn[c]) > 0}
  IN  IF occupied = {} THEN -1
      ELSE (CHOOSE c \in occupied : \A d \in occupied : c <= d) - 1

AllSameLength(dict) ==
  \A i, j \in 1..Len(dict) : Len(dict[i].v) = Len(dict[j].v)

\* number of zero samples put in front of lead i
LeftPad(i) == Len(paddedSignals[i].v) - Len(scaledSignals[i].v)

(***************************************************************************)
(* C1.  If every selected lead's extraction yields no signal,              *)
(* convertECGLeads returns the failure outcome (None, None), carrying no   *)
(* signals and no previews, and no exception leaves it.                    *)
(***************************************************************************)
C1_AllLeadsFailReturnsFailure ==
  (pc = "done" /\ AllKind(signals, "None")) => result = ReturnNone

(***************************************************************************)
(* C2.  If some but not all selected leads yield no signal,                *)
(* convertECGLeads does not raise, and the signals it returns are those of *)
(* exactly the leads whose extraction succeeded.                           *)
(***************************************************************************)
C2_PartialFailureOmitsFailedLeads ==
  (pc = "done" /\ AnyKind(signals, "None") /\ AnyKind(signals, "array")) =>
     /\ result.kind # "raised"
     /\ result.kind = "ok" =>
          Ids(result.signals) = {signals[i].id : i \in {j \in 1..Len(signals) :
                                                         signals[j].v.kind = "array"}}

(***************************************************************************)
(* C3.  Whenever at least one lead is extracted and at least one grid      *)
(* period is estimable, convertECGLeads returns signals and all returned   *)
(* arrays have the same length.                                            *)
(***************************************************************************)
C3_ReturnsSignalsOfEqualLength ==
  (pc = "done" /\ AnyKind(signals, "array") /\ AnyKind(GridOutcomes, "value")) =>
     /\ result.kind = "ok"
     /\ Len(result.signals) >= 1
     /\ AllSameLength(result.signals)

(***************************************************************************)
(* C4.  For every mask of width W with at least one candidate point,       *)
(* extractSignal returns an array of exactly W samples.                    *)
(***************************************************************************)
C4_SignalLengthIsCropWidth ==
  \A i \in 1..Len(signals) :
     LeftmostCandidateColumn(adaptive(leadImages[i].v)) >= 0 =>
        /\ signals[i].v.kind = "array"
        /\ Len(signals[i].v.data) = leadImages[i].v.width

(***************************************************************************)
(* C5.  Every lead is left-padded with exactly                             *)
(* round(startTime / sampling_period) zero samples (nearest integer).      *)
(***************************************************************************)
C5_LeftPadIsRounded ==
  result.kind = "ok" =>
    \A i \in 1..Len(paddedSignals) :
       LeftPad(i) = RoundDiv(StartTimeOf(paddedSignals[i].id) * samplingPeriod[2],
                             1000 * samplingPeriod[1])

(***************************************************************************)
(* C6.  After alignment each returned array is pad_i zeros, then the       *)
(* lead's scaled samples in their order, then zeros; the common length is  *)
(* the maximum over the leads of pad_i + len_i.                            *)
(***************************************************************************)
C6_AlignedLayout ==
  result.kind = "ok" =>
    \A i \in 1..Len(result.signals) :
       LET out == result.signals[i].v
           samples == scaledSignals[i].v
           pad == PadCount(StartTimeOf(result.signals[i].id), samplingPeriod)
       IN  /\ result.signals[i].id = scaledSignals[i].id
           /\ Len(out) >= pad + Len(samples)
           /\ \A k \in 1..Len(out) :
                out[k] = IF k > pad /\ k <= pad + Len(samples) THEN samples[k - pad]
                         ELSE Zero
           /\ \A j \in 1..Len(scaledSignals) :
                Len(out) >= PadCount(StartTimeOf(scaledSignals[j].id), samplingPeriod)
                              + Len(scaledSignals[j].v)
           /\ \E j \in 1..Len(scaledSignals) :
                Len(out) = PadCount(StartTimeOf(scaledSignals[j].id), samplingPeriod)
                             + Len(scaledSignals[j].v)

\* two leads are aligned, one shifted right by zeros in front, the other
\* filled up with zeros behind its last sample
C6_Witness ==
  /\ result.kind = "ok"
  /\ \E i, j \in 1..Len(result.signals) :
       /\ LeftPad(i) > 0
       /\ \E k \in 1..Len(scaledSignals[i].v) : scaledSignals[i].v[k] # Zero
       /\ Len(result.signals[j].v) > Len(paddedSignals[j].v)

(***************************************************************************)
(* C7.  When at least one lead's grid estimation succeeds, the mean of     *)
(* exactly the non-failing periods scales every lead and gives the one     *)
(* sampling period, and every lead is digitized; when none succeeds the    *)
(* pipeline returns the failure outcome.                                   *)
(***************************************************************************)
MeanOfEstimates ==
  LET outcomes == Values(GridOutcomes)
      IsEstimate(r) == r.kind = "value"
      kept == SelectSeq(outcomes, IsEstimate)
  IN  mean([i \in 1..Len(kept) |-> kept[i].v])

C7_MeanPeriodOrFailure ==
  pc = "done" =>
    IF AnyKind(GridOutcomes, "value")
      THEN /\ result.kind = "ok"
           /\ Ids(result.signals) = Ids(parameters.leads)
           /\ \A i \in 1..Len(result.signals) :
                /\ scaledSignals[i].v =
                     verticallyScaleECGSignal(zeroECGSignal(signals[i].v.data),
                                              MeanOfEstimates, parameters.voltScale)
                /\ LeftPad(i) = PadCount(StartTimeOf(scaledSignals[i].id),
                                         ecgSignalSamplingPeriod(MeanOfEstimates,
                                                                 parameters.timeScale))
      ELSE result = ReturnNone

(***************************************************************************)
(* C9.  For every lead with startTime = 0 the index of the first non-NaN   *)
(* sample of its returned signal is the leftmost column of its mask that   *)
(* holds a trace candidate.                                                *)
(***************************************************************************)
C9_FirstSampleAtLeftmostCandidate ==
  result.kind = "ok" =>
    \A i \in 1..Len(result.signals) :
       StartTimeOf(result.signals[i].id) = 0 =>
         FirstNonNaN(result.signals[i].v)
           = LeftmostCandidateColumn(adaptive(Lookup(leadImages, result.signals[i].id)))

(***************************************************************************)
(* Specification of grid/extraction.estimateFrequencyViaAutocorrelation    *)
(* called on its own: any pair of autocorrelation vectors of up to MaxLags *)
(* coefficients.                                                           *)
(***************************************************************************)
MaxLags == 7

\* positions of the largest interpolated value inside the window
\* np.arange(start, end, 0.01): its left end, the peak sample, its right end
RefineSteps ==
  {0, 100 * INTERPOLATION_RADIUS, 200 * INTERPOLATION_RADIUS - 1}

StrengthsUpTo(maxLen) ==
  {Strengths(len, -1, 0) : len \in 0..maxLen}
    \cup UNION {{Strengths(len, peak, refine) : peak \in PeakIndices(len) \ {-1},
                                                 refine \in RefineSteps} : len \in 0..maxLen}

\* no call of convertECGLeads is in progress
NoConversion ==
  /\ parameters = <<>>
  /\ signals = <<>>
  /\ previews = <<>>
  /\ gridSpacings = <<>>
  /\ scaledSignals = <<>>
  /\ paddedSignals = <<>>
  /\ result = Pending

PendingValue == [kind |-> "pending", v |-> 0]

GridInit ==
  /\ pc = "grid-input"
  /\ arg \in [columns : StrengthsUpTo(MaxLags), rows : StrengthsUpTo(MaxLags)]
  /\ ret = PendingValue
  /\ NoConversion

EstimateFrequency ==
  /\ pc = "grid-input"
  /\ ret' = estimateFrequencyViaAutocorrelation(arg.columns, arg.rows)
  /\ pc' = "grid-done"
  /\ UNCHANGED <<parameters, signals, previews, gridSpacings, scaledSignals,
                 paddedSignals, result, arg>>

GridNext == EstimateFrequency

SpecGrid == GridInit /\ [][GridNext]_vars

(***************************************************************************)
(* C8.  Wherever the first qualifying peak lies in the autocorrelation     *)
(* vector, estimateFrequencyViaAutocorrelation returns a period or a       *)
(* Failure and never raises.                                               *)
(***************************************************************************)
C8_EstimateNeverRaises ==
  pc = "grid-done" => ret.kind \in {"value", "Failure"}

(***************************************************************************)
(* Specification of signal.zeroECGSignal followed by                       *)
(* signal.verticallyScaleECGSignal on the signal of a square-wave trace:   *)
(* the trace is on row `first` for `hold` columns, then on row `second`    *)
(* for `hold` columns, and so on, over `length` columns.                   *)
(***************************************************************************)
MaxRow == 1
MaxHold == 2
MaxSamples == 6

SquareRows == {80, 120} \cup 0..MaxRow

\* grid periods in 1/100 pixel
SquarePeriods == {2000, 400, 250}

SquareRow(w, i) == IF ((i - 1) \div w.hold) % 2 = 0 THEN w.first ELSE w.second

SquareWave(w) == [i \in 1..w.length |-> RInt(SquareRow(w, i))]

SquareInputs ==
  {w \in [first : SquareRows, second : SquareRows, hold : 1..MaxHold,
          length : 2..MaxSamples, period : SquarePeriods] :
     w.first # w.second /\ w.length >= 2 * w.hold}

ScaleInit ==
  /\ pc = "scale-input"
  /\ arg \in SquareInputs
  /\ ret = <<>>
  /\ NoConversion

ZeroSignal ==
  /\ pc = "scale-input"
  /\ ret' = zeroECGSignal(SquareWave(arg))
  /\ pc' = "zeroed"
  /\ UNCHANGED <<parameters, signals, previews, gridSpacings, scaledSignals,
                 paddedSignals, result, arg>>

ScaleSignal ==
  /\ pc = "zeroed"
  /\ ret' = verticallyScaleECGSignal(ret, mean(<<arg.period>>), DEFAULT_VOLTAGE_SCALE)
  /\ pc' = "scaled"
  /\ UNCHANGED <<parameters, signals, previews, gridSpacings, scaledSignals,
                 paddedSignals, result, arg>>

ScaleNext == ZeroSignal \/ ScaleSignal

SpecScale == ScaleInit /\ [][ScaleNext]_vars

\* microvolts of `rows` pixel rows at a grid period of `period` / 100 pixels
\* and DEFAULT_VOLTAGE_SCALE mm/mV
MicroVolts(rows, period) == Rat(rows * 100000, period * DEFAULT_VOLTAGE_SCALE)

\* the row that holds more columns of the wave, the first row on a tie
ModalRow(w) ==
  LET onFirst == Cardinality({i \in 1..w.length : SquareRow(w, i) = w.first})
  IN  IF 2 * onFirst >= w.length THEN w.first ELSE w.second

(***************************************************************************)
(* C10 as stated.  The zero-centred, rescaled square wave is symmetric     *)
(* about zero: a sample on a row comes out at (midpoint of the two rows    *)
(* minus the row) microvolts-per-pixel, that is +100 uV for row 80 and     *)
(* -100 uV for row 120 at a grid period of 20 px and 10 mm/mV.             *)
(***************************************************************************)
C10_SymmetricAboutZero ==
  pc = "scaled" =>
    \A i \in 1..Len(ret) :
       ret[i] = Rat((arg.first + arg.second - 2 * SquareRow(arg, i)) * 100000,
                    2 * arg.period * DEFAULT_VOLTAGE_SCALE)

(***************************************************************************)
(* C10 as amended.  The samples on the row that holds more columns (the    *)
(* first row on a tie) come out at 0 uV and the samples on the other row   *)
(* at (modal row - row) microvolts-per-pixel: the two levels are the row   *)
(* difference apart, sign flipped, with the modal level at zero - 0 uV and *)
(* -200 uV for rows 80 (modal) and 120 at 20 px and 10 mm/mV.              *)
(***************************************************************************)
C10_ModalLevelAtZero ==
  pc = "scaled" =>
    /\ Len(ret) = arg.length
    /\ \A i \in 1..Len(ret) :
         ret[i] = MicroVolts(ModalRow(arg) - SquareRow(arg, i), arg.period)

\* the scenario of the claim: rows 80 and 120 at a grid period of 20 px
C10_Witness ==
  /\ pc = "scaled"
  /\ arg.first = 80 /\ arg.second = 120 /\ arg.period = 2000
  /\ \E i, j \in 1..Len(ret) : ret[i] = Zero /\ ret[j] = RInt(-200)

(***************************************************************************)
(* otsu.py: otsuThreshold and climb1dHill, one action per pass of the      *)
(* loop of climb1dHill.  A histogram maps the bins of OtsuBins to pixel    *)
(* counts; every other bin is empty.                                       *)
(***************************************************************************)
MaxCount == 2
MaxPixels == 4

\* number of gray levels of an 8-bit image
L == 256

\* bins that may hold pixels: two dark bins, the bins around L \div 2, one
\* bright bin
OtsuBins == {10, 50, 126, 127, 128, 129, 200}

BinCount(n, i) == IF i \in DOMAIN n THEN n[i] ELSE 0

\* N = height * width
PixelCount(n) == SeqSum([j \in 1..Cardinality(DOMAIN n) |-> n[Ascending(DOMAIN n)[j]]])

\* N * omega(k): the pixels of the bins below k
omega(n, k) ==
  LET below == Ascending({i \in DOMAIN n : i < k})
  IN  SeqSum([j \in 1..Len(below) |-> n[below[j]]])

\* N * mu(k): sum of (i + 1) * n[i] over the bins below k
mu(n, k) ==
  LET below == Ascending({i \in DOMAIN n : i < k})
  IN  SeqSum([j \in 1..Len(below) |-> (below[j] + 1) * n[below[j]]])

\* sigma_B(k) * N^2 as numerator and denominator; 0 / 0 is nan
sigma_B(n, k) ==
  LET N == PixelCount(n)
      numerator == (mu(n, L) * omega(n, k) - mu(n, k) * N)
                     * (mu(n, L) * omega(n, k) - mu(n, k) * N)
      denominator == omega(n, k) * (N - omega(n, k))
  IN  <<numerator, denominator>>

\* a > b on floats: False as soon as one side is nan
Greater(a, b) == a[2] # 0 /\ b[2] # 0 /\ a[1] * b[2] > b[1] * a[2]

\* a bin that starts a local maximum of the histogram
IsMode(n, i) ==
  /\ n[i] > 0
  /\ BinCount(n, i - 1) < n[i]
  /\ \E r \in DOMAIN n :
       /\ r >= i
       /\ \A m \in i..r : BinCount(n, m) = n[i]
       /\ BinCount(n, r + 1) < n[i]

Modes(n) == Cardinality({i \in DOMAIN n : IsMode(n, i)})

Histograms ==
  {n \in [OtsuBins -> 0..MaxCount] :
     /\ PixelCount(n) \in 1..MaxPixels
     /\ Modes(n) \in {1, 2}}

Climbing(index) == [kind |-> "climbing", v |-> index]

\* otsuThreshold up to the first pass of the loop: startIndex = len(xs) // 2
OtsuInit ==
  /\ pc = "otsu-climb"
  /\ arg \in Histograms
  /\ ret = Climbing(L \div 2)
  /\ NoConversion

\* one pass of the while loop of climb1dHill
ClimbStep ==
  /\ pc = "otsu-climb"
  /\ LET currentIndex == ret.v
         left == IF currentIndex > 0 THEN currentIndex - 1 ELSE -1
         right == IF currentIndex < L - 1 THEN currentIndex + 1 ELSE -1
     IN  IF left = -1 \/ right = -1
           THEN ret' = RaisedValue /\ pc' = "otsu-done"
         ELSE IF Greater(sigma_B(arg, left), sigma_B(arg, currentIndex))
           THEN ret' = Climbing(left) /\ pc' = pc
         ELSE IF Greater(sigma_B(arg, right), sigma_B(arg, currentIndex))
           THEN ret' = Climbing(right) /\ pc' = pc
         ELSE ret' = ValueOf(currentIndex) /\ pc' = "otsu-done"
  /\ UNCHANGED <<parameters, signals, previews, gridSpacings, scaledSignals,
                 paddedSignals, result, arg>>

OtsuNext == ClimbStep

SpecOtsu == OtsuInit /\ [][OtsuNext]_vars

(***************************************************************************)
(* C11.  For every unimodal or bimodal histogram the threshold returned by *)
(* otsuThreshold is a k at which the between-class variance attains its    *)
(* maximum over all k in 0..255: no k has a defined variance that the      *)
(* variance at the returned threshold does not reach.                      *)
(***************************************************************************)
C11_HillClimbFindsArgmax ==
  pc = "otsu-done" =>
    /\ ret.kind = "value"
    /\ \A k \in 0..(L - 1) :
         sigma_B(arg, k)[2] # 0 =>
           /\ sigma_B(arg, ret.v)[2] # 0
           /\ ~Greater(sigma_B(arg, k), sigma_B(arg, ret.v))

(***************************************************************************)
(* Specification of viterbi.score called on its own: the candidate point   *)
(* lies in the column of the current point or left of it.                  *)
(***************************************************************************)
MaxScoreX == 2
MaxScoreY == 2

ScorePoints == {Point(x, y) : x \in 0..MaxScoreX, y \in 0..MaxScoreY}

\* the angles angleBetweenPoints yields between the points of ScorePoints
ScoreAngles ==
  {angleFromOffsets(x, y) : x \in 1..MaxScoreX, y \in (-MaxScoreY)..MaxScoreY}
    \cup {angleFromOffsets(0, 1), angleFromOffsets(0, -1)}

ScoreInit ==
  /\ pc = "score-input"
  /\ arg \in {a \in [currentPoint : ScorePoints, candidatePoint : ScorePoints,
                     candidateAngle : ScoreAngles] :
                a.candidatePoint[1] <= a.currentPoint[1]}
  /\ ret = PendingValue
  /\ NoConversion

Score ==
  /\ pc = "score-input"
  /\ ret' = IF angleFromOffsetsRaises(arg.currentPoint[1] - arg.candidatePoint[1],
                                      arg.currentPoint[2] - arg.candidatePoint[2])
              THEN RaisedValue
              ELSE ValueOf(score(arg.currentPoint, arg.candidatePoint, arg.candidateAngle))
  /\ pc' = "score-done"
  /\ UNCHANGED <<parameters, signals, previews, gridSpacings, scaledSignals,
                 paddedSignals, result, arg>>

ScoreNext == Score

SpecScore == ScoreInit /\ [][ScoreNext]_vars

(***************************************************************************)
(* C12.  The step cost of going from a point to itself is zero:            *)
(* score(a, a, alpha) evaluates to 0 for every point a and every incoming  *)
(* angle alpha.                                                            *)
(***************************************************************************)
C12_SelfCostIsZero ==
  (pc = "score-done" /\ arg.currentPoint = arg.candidatePoint) => ret = ValueOf(0)

(***************************************************************************)
(* Specification of viterbi.angleSimilarity called on its own, on the      *)
(* angles of ScoreAngles and the angles half a turn from them.             *)
(***************************************************************************)
SimilarityAngles == ScoreAngles \cup {a + 180000 : a \in ScoreAngles}

AngleInit ==
  /\ pc = "angle-input"
  /\ arg \in [firstAngle : SimilarityAngles, secondAngle : SimilarityAngles]
  /\ ret = PendingValue
  /\ NoConversion

CompareAngles ==
  /\ pc = "angle-input"
  /\ ret' = ValueOf(angleSimilarity(arg.firstAngle, arg.secondAngle))
  /\ pc' = "angle-done"
  /\ UNCHANGED <<parameters, signals, previews, gridSpacings, scaledSignals,
                 paddedSignals, result, arg>>

AngleNext == CompareAngles

SpecAngle == AngleInit /\ [][AngleNext]_vars

(***************************************************************************)
(* Specification of viterbi.extractSignal called on its own.  A mask is    *)
(* narrow (MaxMaskWidth columns) or wide (wider than the window of         *)
(* OPTIMAL_ENDING_WIDTH columns); every column that may hold pixels holds  *)
(* one of the patterns of ColumnPatterns.                                  *)
(***************************************************************************)
MaxMaskWidth == 3

ExtractHeight == MaskHeight + 1

\* rows of the 1-pixels of a column: none, one pixel at the top, below the
\* top or at the bottom, a run of two or three from the top, two separate
\* pixels
ColumnPatterns(h) == {{}, {0}, {1}, {h - 1}, {0, 1}, {0, 1, 2}, {0, 2}}

\* columns of a w-wide mask that may hold pixels
PatternColumns(w) ==
  IF w <= OPTIMAL_ENDING_WIDTH THEN 0..(w - 1) ELSE 0..MaxTail \cup {w - 1}

ExtractWidths == {MaxMaskWidth, WideWidth}

ExtractInput(w, pixels) == [width |-> w, height |-> ExtractHeight, pixels |-> pixels]

\* the binary image of an input
MaskOf(input) ==
  [c \in 1..input.width |->
     [r \in 1..input.height |->
        IF c - 1 \in DOMAIN input.pixels /\ r - 1 \in input.pixels[c - 1] THEN 1 ELSE 0]]

ExtractInit ==
  /\ pc = "extract-input"
  /\ \E w \in ExtractWidths :
       \E pixels \in [PatternColumns(w) -> ColumnPatterns(ExtractHeight)] :
          arg = ExtractInput(w, pixels)
  /\ ret = [kind |-> "pending", data |-> <<>>]
  /\ NoConversion

Extract ==
  /\ pc = "extract-input"
  /\ ret' = extractSignal(MaskOf(arg))
  /\ pc' = "extract-done"
  /\ UNCHANGED <<parameters, signals, previews, gridSpacings, scaledSignals,
                 paddedSignals, result, arg>>

ExtractNext == Extract

SpecExtract == ExtractInit /\ [][ExtractNext]_vars

\* the 1-pixels of an input, as <<column, row>>
PixelsOf(input) ==
  UNION {{<<c, r>> : r \in input.pixels[c]} : c \in DOMAIN input.pixels}

\* indices (from 0) of the samples of a signal that are not NaN
NonNaNIndices(signal) == {i - 1 : i \in {j \in 1..Len(signal) : ~IsNaN(signal[j])}}

(***************************************************************************)
(* C13.  For every mask that contains exactly one 1-pixel, whatever its    *)
(* column c and its row, extractSignal returns a signal with exactly one   *)
(* non-NaN sample, and that sample is at index c.                          *)
(***************************************************************************)
C13_SinglePixelSingleSample ==
  (pc = "extract-done" /\ Cardinality(PixelsOf(arg)) = 1) =>
     /\ ret.kind = "array"
     /\ NonNaNIndices(ret.data) = {p[1] : p \in PixelsOf(arg)}

\* the path extractSignal traces back, end point first
ExtractedPath(binary) ==
  LET pointsByColumn == getPointLocations(binary)
      table == bestPathTable(pointsByColumn)
      optimalCandidates == getAdjacent(pointsByColumn, Len(binary), OPTIMAL_ENDING_WIDTH)
  IN  TraceBack(table.best, BestEnding(optimalCandidates, table.best, 1))

\* number of 1-pixels of the run of a column that starts at row 0
RECURSIVE TopRunLength(_)
TopRunLength(oneDimImage) ==
  IF Len(oneDimImage) = 0 \/ oneDimImage[1] = 0 THEN 0
  ELSE 1 + TopRunLength(Tail(oneDimImage))

\* the points of the extracted path that stand for the run of their column
\* that includes row 0: every other run of the column lies below that run
TopEdgePoints(binary) ==
  LET path == ExtractedPath(binary)
  IN  {path[i] : i \in {j \in 1..Len(path) :
         LET run == TopRunLength(binary[path[j][1] + 1])
         IN  run >= 1 /\ path[j][2] <= run}}

IdOrder(dict) == [i \in 1..Len(dict) |-> dict[i].id]

(***************************************************************************)
(* C15.  The signals and the previews returned by convertECGLeads          *)
(* enumerate the leads in ascending LeadId ordinal order, whatever the     *)
(* iteration order of the input leads mapping.                             *)
(***************************************************************************)
C15_OutputInLeadIdOrder ==
  result.kind = "ok" =>
    /\ IdOrder(result.signals) = Ascending(Ids(parameters.leads))
    /\ IdOrder(result.previews) = Ascending(Ids(parameters.leads))

(***************************************************************************)
(* Conversion.exportSignals called on its own.  The file is the sequence   *)
(* of the lines written; a line is its fields (str(val) of a sample is the *)
(* sample tagged as text), the separator between them and the terminator.  *)
(***************************************************************************)
MaxExportLength == 3

ExportSamples == {Zero, RInt(-25)}

\* str(val)
Str(val) == [text |-> val]

\* leads.sort(key = pair[0].value) without the sort: the mapping's order
zipDictUnsorted(leadSignals) == leadSignals

\* common.zipDict followed by leads.sort(key = pair[0].value)
zipDictSorted(leadSignals) ==
  LET order == Ascending(Ids(leadSignals))
  IN  [i \in 1..Len(order) |-> Entry(order[i], Lookup(leadSignals, order[i]))]

Written(lines) == [kind |-> "written", lines |-> lines]
NotWritten == [kind |-> "raised", lines |-> <<>>]

exportSignals(leadSignals, separator) ==
  LET leads == zipDictSorted(leadSignals)
  IN  IF ~(Len(leads) >= 1) THEN NotWritten
      ELSE LET lengthOfFirst == Len(leads[1].v)
           IN  IF ~(\A i \in 1..Len(leads) : Len(leads[i].v) = lengthOfFirst)
                 THEN NotWritten
               ELSE Written([row \in 1..lengthOfFirst |->
                               [fields |-> [i \in 1..Len(leads) |-> Str(leads[i].v[row])],
                                separator |-> separator,
                                terminator |-> "\n"]])

ExportSignalsOf(length) == UNION {[1..n -> ExportSamples] : n \in {0, length}}

\* the mapping that lists the leads of `order` with the signals `values`
ExportInput(order, values) == [i \in 1..Len(order) |-> Entry(order[i], values[i])]

ExportInit ==
  /\ pc = "export-input"
  /\ \E order \in LeadOrders :
       \E values \in [1..Len(order) -> ExportSignalsOf(MaxExportLength)] :
          arg = ExportInput(order, values)
  /\ ret = [kind |-> "pending", lines |-> <<>>]
  /\ NoConversion

Export ==
  /\ pc = "export-input"
  /\ ret' = exportSignals(arg, "\t")
  /\ pc' = "export-done"
  /\ UNCHANGED <<parameters, signals, previews, gridSpacings, scaledSignals,
                 paddedSignals, result, arg>>

ExportNext == Export

SpecExport == ExportInit /\ [][ExportNext]_vars

\* position of a lead among the leads of a mapping, by ascending ordinal
Rank(dict, id) == Cardinality({other \in Ids(dict) : other <= id})

(***************************************************************************)
(* C16.  exportSignals writes exactly one newline-terminated line per time *)
(* sample, and on every line the fields are the leads' samples in          *)
(* ascending LeadId ordinal order, whatever the order of the mapping; it   *)
(* refuses (assertion) any set of signals whose lengths differ.            *)
(***************************************************************************)
C16_OneLinePerSampleInLeadOrder ==
  pc = "export-done" =>
    IF \E i, j \in 1..Len(arg) : Len(arg[i].v) # Len(arg[j].v)
      THEN ret = NotWritten
      ELSE Len(arg) >= 1 =>
             /\ ret.kind = "written"
             /\ Len(ret.lines) = Len(arg[1].v)
             /\ \A row \in 1..Len(ret.lines) :
                  /\ ret.lines[row].terminator = "\n"
                  /\ Len(ret.lines[row].fields) = Len(arg)
                  /\ \A i \in 1..Len(arg) :
                       ret.lines[row].fields[Rank(arg, arg[i].id)] = Str(arg[i].v[row])

\* two leads given in descending order are written, the lower ordinal first
C16_Witness ==
  /\ pc = "export-done"
  /\ ret.kind = "written"
  /\ Len(ret.lines) = MaxExportLength
  /\ Len(arg) >= 2
  /\ arg[1].id > arg[2].id
  /\ arg[1].v[1] # arg[2].v[1]
  /\ ret.lines[1].fields[1] = Str(arg[2].v[1])

\* the estimate of an axis whose autocorrelation has a peak, in 1/100 pixel
PeakEstimate(strengths) ==
  100 * (strengths.peak - INTERPOLATION_RADIUS) + strengths.refine

(***************************************************************************)
(* C17.  The grid period returned is the column-axis estimate whenever the *)
(* column autocorrelation yields a peak (whether or not the row axis       *)
(* does), the row-axis estimate exactly when only the row axis yields a    *)
(* peak, and a Failure exactly when neither axis yields a peak.            *)
(***************************************************************************)
C17_ColumnAxisPreferred ==
  pc = "grid-done" =>
    IF arg.columns.peak # -1 THEN ret = ValueOf(PeakEstimate(arg.columns))
    ELSE IF arg.rows.peak # -1 THEN ret = ValueOf(PeakEstimate(arg.rows))
    ELSE ret = Failure

(***************************************************************************)
(* C18.  angleSimilarity(alpha, alpha) = 1 and                             *)
(* angleSimilarity(alpha, alpha + 180) = 0 for every angle alpha.          *)
(***************************************************************************)
C18_SameAndOppositeAngles ==
  pc = "angle-done" =>
    /\ arg.secondAngle = arg.firstAngle => ret = ValueOf(180000)
    /\ arg.secondAngle = arg.firstAngle + 180000 => ret = ValueOf(0)

\* both cases have been computed for an angle other than 0
C18_Witness ==
  /\ pc = "angle-done"
  /\ arg.firstAngle # 0
  /\ \/ arg.secondAngle = arg.firstAngle /\ ret = ValueOf(180000)
     \/ arg.secondAngle = arg.firstAngle + 180000 /\ ret = ValueOf(0)

\* <<total cost, incoming angle>> of every left-to-right sequence of
\* candidates that starts at a seed, follows the look-back adjacency of
\* getAdjacent and ends at `point`
RECURSIVE PathRecords(_, _)
PathRecords(pointsByColumn, point) ==
  LET adjacent == getAdjacent(pointsByColumn, point[1], MINIMUM_LOOK_BACK)
  IN  IF Len(adjacent) = 0 THEN {<<SeedRecord.cost, SeedRecord.angle>>}
      ELSE UNION {{<<r[1] + score(point, adjacent[i], r[2]),
                     angleBetweenPoints(adjacent[i], point)>> :
                     r \in PathRecords(pointsByColumn, adjacent[i])} :
                   i \in 1..Len(adjacent)}

(***************************************************************************)
(* C19.  The path returned by extractSignal has minimal total              *)
(* distance-plus-angle cost among all left-to-right candidate sequences    *)
(* that start at a seed, follow the same look-back adjacency and end at    *)
(* the selected end point: no such sequence is cheaper than the cost       *)
(* recorded for the end point.                                             *)
(***************************************************************************)
C19_PathHasMinimalCost ==
  (pc = "extract-done" /\ ret.kind = "array") =>
     LET pointsByColumn == getPointLocations(MaskOf(arg))
         endPoint == ExtractedPath(MaskOf(arg))[1]
         recorded == bestPathTable(pointsByColumn).best[endPoint].cost
     IN  \A r \in PathRecords(pointsByColumn, endPoint) : recorded <= r[1]

\* columns of the window of the last OPTIMAL_ENDING_WIDTH columns that hold
\* a candidate point
EndingColumns(binary) ==
  LET pointsByColumn == getPointLocations(binary)
  IN  {c \in lowerClamp(Len(binary) - OPTIMAL_ENDING_WIDTH, 0)..(Len(binary) - 1) :
         Len(pointsByColumn[c + 1]) > 0}

\* every recorded step costs at least 0.5 (180000 in units of 1/360000)
ChainCostsIncrease(best) ==
  \A p \in DOMAIN best :
     best[p].prev # None => best[p].cost >= best[best[p].prev].cost + 180000

\* the signal ends at column `last`, the leftmost column of `columns`
EndsAtLeftmost(columns, last) ==
  /\ \A c \in columns : last <= c
  /\ columns # {} => last \in columns

(***************************************************************************)
(* C20.  Every step adds a cost of at least 0.5, so the cumulative cost    *)
(* strictly increases along every predecessor chain; the end point chosen  *)
(* by lowest cumulative cost is a candidate of the leftmost non-empty      *)
(* column among the last 20 columns, and the returned array has no sample  *)
(* for any column to the right of that column.                             *)
(***************************************************************************)
C20_EndsAtLeftmostOfWindow ==
  (pc = "extract-done" /\ ret.kind = "array") =>
     /\ ChainCostsIncrease(bestPathTable(getPointLocations(MaskOf(arg))).best)
     /\ EndsAtLeftmost(EndingColumns(MaskOf(arg)), Len(ret.data) - 1)
     /\ ~IsNaN(ret.data[Len(ret.data)])

\* a wide mask with candidates left of the window, in its first column and
\* right of it: the signal stops at the first column of the window
C20_Witness ==
  /\ pc = "extract-done"
  /\ ret.kind = "array"
  /\ arg.width > OPTIMAL_ENDING_WIDTH
  /\ Cardinality(EndingColumns(MaskOf(arg))) >= 2
  /\ Cardinality(NonNaNIndices(ret.data)) >= 3
  /\ Len(ret.data) = arg.width - OPTIMAL_ENDING_WIDTH + 1

\* the maximal runs of nonzero pixels of a column, as <<first row, last row>>
MaximalRuns(oneDimImage) ==
  LET n == Len(oneDimImage)
  IN  {run \in (0..(n - 1)) \X (0..(n - 1)) :
         /\ run[1] <= run[2]
         /\ \A r \in run[1]..run[2] : oneDimImage[r + 1] > 0
         /\ run[1] = 0 \/ oneDimImage[run[1]] = 0
         /\ run[2] = n - 1 \/ oneDimImage[run[2] + 2] = 0}

\* the elements of a sequence
Range(s) == {s[i] : i \in 1..Len(s)}

(***************************************************************************)
(* C21.  For every pixel column, each maximal run of consecutive nonzero   *)
(* pixels, a run that extends to the last row included, is reported by     *)
(* findContiguousRegions as its (first index, last index) pair and         *)
(* contributes exactly one candidate point, at the mean of the first and   *)
(* last row index rounded down.                                            *)
(***************************************************************************)
C21_EveryRunIsACandidateAtItsMidpoint ==
  pc = "extract-done" =>
     \A c \in 1..arg.width :
        LET column == MaskOf(arg)[c]
            regions == findContiguousRegions(column)
            points == getPointLocations(MaskOf(arg))[c]
        IN  /\ Range(regions) = MaximalRuns(column)
            /\ Len(points) = Cardinality(MaximalRuns(column))
            /\ Range(points) =
                 {Point(c - 1, (run[1] + run[2]) \div 2) : run \in MaximalRuns(column)}

(***************************************************************************)
(* Specification of viterbi.getAdjacent called on its own, one action per  *)
(* pass of its while loop.  The candidates come from a narrow or a wide    *)
(* mask whose columns are empty or hold one or two candidates; the         *)
(* starting column is any column from 1 to the width (the width itself is  *)
(* the call that selects the end point), the look-back is that of the      *)
(* table construction or that of the end-point selection.                  *)
(***************************************************************************)
AdjacentPatterns == {{}, {0}, {0, 2}}

LookBacks == {MINIMUM_LOOK_BACK, OPTIMAL_ENDING_WIDTH}

\* the local variables of getAdjacent
AdjacentFrame(leftColumnIndex, found, expansions) ==
  [leftColumnIndex |-> leftColumnIndex, result |-> found, expansions |-> expansions]

AdjacentInit ==
  /\ pc = "adjacent-loop"
  /\ \E w \in ExtractWidths :
       \E pixels \in [PatternColumns(w) -> AdjacentPatterns] :
          \E startingColumn \in 1..w :
             \E minimumLookBack \in LookBacks :
                /\ arg = [mask |-> ExtractInput(w, pixels),
                          startingColumn |-> startingColumn,
                          minimumLookBack |-> minimumLookBack]
                /\ LET leftColumnIndex == lowerClamp(startingColumn - minimumLookBack, 0)
                   IN  ret = AdjacentFrame(
                               leftColumnIndex,
                               AdjacentWindow(getPointLocations(MaskOf(ExtractInput(w, pixels))),
                                              leftColumnIndex, startingColumn),
                               0)
  /\ NoConversion

\* one pass of "while len(result) == 0 and leftColumnIndex >= 0"
ExpandAdjacent ==
  /\ pc = "adjacent-loop"
  /\ Len(ret.result) = 0 /\ ret.leftColumnIndex >= 0
  /\ ret' = AdjacentFrame(
              ret.leftColumnIndex - 1,
              AdjacentWindow(getPointLocations(MaskOf(arg.mask)),
                             ret.leftColumnIndex - 1, arg.startingColumn),
              ret.expansions + 1)
  /\ UNCHANGED <<pc, parameters, signals, previews, gridSpacings, scaledSignals,
                 paddedSignals, result, arg>>

\* the loop is left and the points of result are yielded
YieldAdjacent ==
  /\ pc = "adjacent-loop"
  /\ ~(Len(ret.result) = 0 /\ ret.leftColumnIndex >= 0)
  /\ pc' = "adjacent-done"
  /\ UNCHANGED <<parameters, signals, previews, gridSpacings, scaledSignals,
                 paddedSignals, result, arg, ret>>

AdjacentNext == ExpandAdjacent \/ YieldAdjacent

SpecAdjacent == AdjacentInit /\ [][AdjacentNext]_vars

\* the candidates of the columns lo..hi, in column order
CandidatesOfColumns(pointsByColumn, lo, hi) ==
  flatten([i \in 1..(hi - lo + 1) |-> pointsByColumn[lo + i]])

\* the columns left of column c that hold a candidate
ColumnsLeftOf(pointsByColumn, c) ==
  {k \in 0..(c - 1) : Len(pointsByColumn[k + 1]) > 0}

\* what C22 says of a finished search from column c
SearchResultIsLeftOnly(pointsByColumn, c, minimumLookBack, found) ==
  LET first == lowerClamp(c - minimumLookBack, 0)
      initial == CandidatesOfColumns(pointsByColumn, first, c - 1)
      left == ColumnsLeftOf(pointsByColumn, c)
      nearest == CHOOSE k \in left : \A j \in left : j <= k
  IN  /\ \A p \in Range(found) : p[1] < c
      /\ IF Len(initial) > 0 THEN found = initial
         ELSE IF left # {} THEN found = pointsByColumn[nearest + 1]
         ELSE found = <<>>

(***************************************************************************)
(* C22.  For every column c >= 1 the predecessor search of getAdjacent     *)
(* makes at most c + 1 window expansions and returns only candidates of    *)
(* columns strictly left of c: all candidates of the initial window if it  *)
(* is not empty, otherwise exactly the candidates of the nearest non-empty *)
(* column to the left, and nothing when no column left of c has a          *)
(* candidate; an index below 0 never brings in columns of the right end.   *)
(***************************************************************************)
C22_SearchStopsAndLooksLeftOnly ==
  /\ pc \in {"adjacent-loop", "adjacent-done"}
  /\ ret.expansions <= arg.startingColumn + 1
  /\ ret.leftColumnIndex >= -1
  /\ pc = "adjacent-done" =>
       SearchResultIsLeftOnly(getPointLocations(MaskOf(arg.mask)), arg.startingColumn,
                              arg.minimumLookBack, ret.result)

\* the search from a column left of the last one finds nothing, its index
\* has passed below 0 and the last column of the mask holds candidates
C22_Witness ==
  /\ pc = "adjacent-done"
  /\ arg.startingColumn < arg.mask.width
  /\ ret.leftColumnIndex = -1
  /\ ret.expansions = arg.startingColumn
  /\ arg.mask.pixels[arg.mask.width - 1] # {}
  /\ ret.result = <<>>

(***************************************************************************)
(* Specification of signal.zeroECGSignal called on its own on a signal as  *)
(* extractSignal returns it: leading NaN samples, then finite samples.     *)
(***************************************************************************)
MaxLeadingNaN == 2
MaxFinite == 3

CentreSamples == {Zero, RInt(1), RInt(5)}

CentreInit ==
  /\ pc = "centre-input"
  /\ \E leading \in 0..MaxLeadingNaN :
       \E count \in 1..MaxFinite :
          \E finite \in [1..count -> CentreSamples] :
             arg = Repeat(NaN, leading) \o finite
  /\ ret = <<>>
  /\ NoConversion

CentreSignal ==
  /\ pc = "centre-input"
  /\ ret' = zeroECGSignal(arg)
  /\ pc' = "centre-done"
  /\ UNCHANGED <<parameters, signals, previews, gridSpacings, scaledSignals,
                 paddedSignals, result, arg>>

CentreNext == CentreSignal

SpecCentre == CentreInit /\ [][CentreNext]_vars

\* the values that occur most often among the non-NaN samples
FiniteModes(signal) ==
  LET finite == {i \in 1..Len(signal) : ~IsNaN(signal[i])}
      Count(i) == Cardinality({j \in finite : signal[j] = signal[i]})
  IN  {signal[i] : i \in {k \in finite : \A j \in finite : Count(j) <= Count(k)}}

(***************************************************************************)
(* C24.  zeroECGSignal subtracts from every sample the most frequent value *)
(* among the non-NaN samples; a NaN sample is never the zero point, so     *)
(* every finite sample stays finite, whatever the number of leading NaN    *)
(* samples.                                                                *)
(***************************************************************************)
C24_ZeroPointIsFiniteMode ==
  pc = "centre-done" =>
     /\ Len(ret) = Len(arg)
     /\ \A i \in 1..Len(arg) : ~IsNaN(arg[i]) => ~IsNaN(ret[i])
     /\ \E zeroPoint \in FiniteModes(arg) :
          \A i \in 1..Len(arg) : ~IsNaN(arg[i]) => ret[i] = RSub(arg[i], zeroPoint)

\* the value of the straight line through the points p and q at column x
LineThrough(p, q, x) ==
  Rat(p[2] * (q[1] - p[1]) + (q[2] - p[2]) * (x - p[1]), q[1] - p[1])

\* what C23 says of the array built from a path (end point first)
PathFillsSignal(path, signal) ==
  LET leftmost == path[Len(path)][1]
      rightmost == path[1][1]
  IN  /\ \A i \in 1..Len(path) : path[i][1] \in 0..(Len(signal) - 1)
      /\ \A i \in 2..Len(path) : path[i][1] + 1 \in 0..(Len(signal) - 1)
      /\ \A c \in 0..(Len(signal) - 1) :
           IsNaN(signal[c + 1]) <=> ~(c \in leftmost..rightmost)
      /\ \A i \in 1..Len(path) : signal[path[i][1] + 1] = RInt(path[i][2])
      /\ \A i \in 2..Len(path) :
           \A x \in (path[i][1] + 1)..(path[i - 1][1] - 1) :
              signal[x + 1] = LineThrough(path[i], path[i - 1], x)

(***************************************************************************)
(* C23.  In the array built by convertPointsToSignal every column from the *)
(* leftmost to the rightmost path point is non-NaN: a path column holds    *)
(* the y of its path point, every column strictly between two consecutive  *)
(* path points holds the linear interpolation between them; every column   *)
(* left of the leftmost path point is NaN; no write falls outside the      *)
(* array.                                                                  *)
(***************************************************************************)
C23_PathColumnsAreFilled ==
  (pc = "extract-done" /\ ret.kind = "array") =>
     PathFillsSignal(ExtractedPath(MaskOf(arg)), ret.data)

\* what the witness of C23 asks of a path: it starts right of column 0 and
\* two consecutive points on different rows are more than two columns apart
PathHasSlopedGap(path) ==
  /\ path[Len(path)][1] > 0
  /\ \E i \in 2..Len(path) :
       /\ path[i - 1][1] - path[i][1] > 2
       /\ path[i - 1][2] # path[i][2]

C23_Witness ==
  /\ pc = "extract-done"
  /\ ret.kind = "array"
  /\ arg.width > OPTIMAL_ENDING_WIDTH
  /\ IsNaN(ret.data[1])
  /\ PathHasSlopedGap(ExtractedPath(MaskOf(arg)))

(***************************************************************************)
(* Specification of otsu.climb1dHill called on xs = 0..L-1 with a score    *)
(* function of its own: flat, or falling on both sides of a peak that lies *)
(* at an end of xs, at the start index or on either side of it.            *)
(***************************************************************************)
ClimbPeaks == {0, 100, (L \div 2) - 1, L \div 2, (L \div 2) + 1, 200, L - 1}

ScoreFunctions == [peak : ClimbPeaks, slope : {0, 1}]

\* evaluate(k) of a score function
evaluate(f, k) == -(f.slope * Abs(k - f.peak))

\* neighbors(index), None as -1
neighbors(index) ==
  <<IF index > 0 THEN index - 1 ELSE -1, IF index < L - 1 THEN index + 1 ELSE -1>>

ClimbInit ==
  /\ pc = "climb-loop"
  /\ arg \in ScoreFunctions
  /\ ret = Climbing(L \div 2)
  /\ NoConversion

\* one pass of the while loop of climb1dHill
HillStep ==
  /\ pc = "climb-loop"
  /\ LET currentIndex == ret.v
         left == neighbors(currentIndex)[1]
         right == neighbors(currentIndex)[2]
     IN  IF left = -1 \/ right = -1
           THEN ret' = RaisedValue /\ pc' = "climb-done"
         ELSE IF evaluate(arg, left) > evaluate(arg, currentIndex)
           THEN ret' = Climbing(left) /\ pc' = pc
         ELSE IF evaluate(arg, right) > evaluate(arg, currentIndex)
           THEN ret' = Climbing(right) /\ pc' = pc
         ELSE ret' = ValueOf(currentIndex) /\ pc' = "climb-done"
  /\ UNCHANGED <<parameters, signals, previews, gridSpacings, scaledSignals,
                 paddedSignals, result, arg>>

ClimbNext == HillStep

SpecClimb == ClimbInit /\ [][ClimbNext]_vars

(***************************************************************************)
(* C25.  For every score function over k in 0..255, climb1dHill started at *)
(* index 128 ends by returning an index whose left and right neighbours,   *)
(* where they exist, do not score higher than it; it never ends by         *)
(* raising, also when the climb reaches index 0 or 255.                    *)
(***************************************************************************)
C25_ClimbReturnsLocalMaximum ==
  pc = "climb-done" =>
     /\ ret.kind = "value"
     /\ ret.v \in 0..(L - 1)
     /\ ret.v > 0 => evaluate(arg, ret.v - 1) <= evaluate(arg, ret.v)
     /\ ret.v < L - 1 => evaluate(arg, ret.v + 1) <= evaluate(arg, ret.v)

(***************************************************************************)
(* Specification of signal/detection.adaptive, one action per pass of its  *)
(* while loop.  A hedging factor is written <<h, d>>: the double           *)
(* h / 100 - d * 1e-16.  An image is described by the hedging factors (in  *)
(* 1/100) at which the grid is detectable in the mask binarized at         *)
(* otsuThreshold * hedging; a mask is named by the factor it was binarized *)
(* with.                                                                   *)
(***************************************************************************)
maxHedge == 100
minHedge == 60

\* the doubles that "hedging -= 0.05" produces from float(maxHedge):
\* 1.0, 0.95, 0.8999999999999999, 0.8499999999999999, 0.7999999999999998,
\* 0.7499999999999998, 0.6999999999999997, 0.6499999999999997,
\* 0.5999999999999996
HedgingValues ==
  <<<<100, 0>>, <<95, 0>>, <<90, 1>>, <<85, 1>>, <<80, 2>>, <<75, 2>>,
    <<70, 3>>, <<65, 3>>, <<60, 4>>>>

\* hedging - 0.05 in double arithmetic
SubtractStep(hedging) ==
  LET i == CHOOSE j \in 1..(Len(HedgingValues) - 1) : HedgingValues[j] = hedging
  IN  HedgingValues[i + 1]

\* hedging < minHedge, minHedge being the double 0.6
BelowMinHedge(hedging) ==
  hedging[1] < minHedge \/ (hedging[1] = minHedge /\ hedging[2] > 0)

\* the factors 1.00, 0.95, ..., 0.60 in 1/100
HedgeLevels == {h \in minHedge..maxHedge : (maxHedge - h) % 5 = 0}

\* _gridIsDetectable(binary) for the mask binarized with `hedging`
gridIsDetectable(image, binary) == binary[1] \in image

AdaptiveFrame(hedging, binary, binarizations) ==
  [hedging |-> hedging, binary |-> binary, binarizations |-> binarizations]

AdaptiveInit ==
  /\ pc = "adaptive-loop"
  /\ arg \in SUBSET HedgeLevels
  /\ ret = AdaptiveFrame(<<maxHedge, 0>>, <<maxHedge, 0>>, 1)
  /\ NoConversion

\* a pass of the loop that binarizes again
Rebinarize ==
  /\ pc = "adaptive-loop"
  /\ gridIsDetectable(arg, ret.binary)
  /\ ~BelowMinHedge(SubtractStep(ret.hedging))
  /\ ret' = AdaptiveFrame(SubtractStep(ret.hedging), SubtractStep(ret.hedging),
                          ret.binarizations + 1)
  /\ UNCHANGED <<pc, parameters, signals, previews, gridSpacings, scaledSignals,
                 paddedSignals, result, arg>>

\* a pass of the loop that ends at "break"
BreakBelowMinHedge ==
  /\ pc = "adaptive-loop"
  /\ gridIsDetectable(arg, ret.binary)
  /\ BelowMinHedge(SubtractStep(ret.hedging))
  /\ ret' = AdaptiveFrame(SubtractStep(ret.hedging), ret.binary, ret.binarizations)
  /\ pc' = "adaptive-done"
  /\ UNCHANGED <<parameters, signals, previews, gridSpacings, scaledSignals,
                 paddedSignals, result, arg>>

\* the loop condition fails: the grid is not detectable in binary
ReturnBinary ==
  /\ pc = "adaptive-loop"
  /\ ~gridIsDetectable(arg, ret.binary)
  /\ pc' = "adaptive-done"
  /\ UNCHANGED <<parameters, signals, previews, gridSpacings, scaledSignals,
                 paddedSignals, result, arg, ret>>

AdaptiveNext == Rebinarize \/ BreakBelowMinHedge \/ ReturnBinary

SpecAdaptive == AdaptiveInit /\ [][AdaptiveNext]_vars

\* the largest factor of HedgeLevels at which the grid is not detectable,
\* the smallest factor when it is detectable at every one
FirstUndetectable(image) ==
  LET clear == HedgeLevels \ image
  IN  IF clear = {} THEN minHedge
      ELSE CHOOSE h \in clear : \A k \in clear : k <= h

(***************************************************************************)
(* C26.  The adaptive detector ends after at most nine binarizations       *)
(* (h = 1.00, 0.95, ..., 0.60): it returns the mask binarized at t * h for *)
(* the first such h at which the grid is not detectable or, if the grid is *)
(* detectable at every such h, the mask of the last h tried, 0.60; the     *)
(* returned mask is never one binarized with h < 0.6.                      *)
(***************************************************************************)
C26_FirstUndetectableOfNine ==
  /\ ret.binarizations <= Cardinality(HedgeLevels)
  /\ ret.binary[1] >= minHedge
  /\ pc = "adaptive-done" => ret.binary[1] = FirstUndetectable(arg)

\* every predecessor link of the table leads to a column further left
LinksLeadLeft(best) ==
  \A p \in DOMAIN best : best[p].prev # None => best[p].prev[1] < p[1]

\* what C27 says of the traced path (end point first): `columns` are the
\* non-empty columns, `candidates` the candidate points
PathCoversColumns(path, columns, candidates) ==
  LET first == path[Len(path)][1]
      last == path[1][1]
  IN  /\ Len(path) >= 1
      /\ \A i \in 2..Len(path) : path[i][1] < path[i - 1][1]
      /\ Range(path) \subseteq candidates
      /\ \A c \in columns : first <= c
      /\ \A c \in columns :
           c \in first..last => Cardinality({i \in 1..Len(path) : path[i][1] = c}) = 1

\* the columns of an input that hold a 1-pixel
NonEmptyColumns(input) == {c \in DOMAIN input.pixels : input.pixels[c] # {}}

C28_AdjacentPointsAreRecorded ==
  pc = "extract-done" =>
     LET pointsByColumn == getPointLocations(MaskOf(arg))
         table == bestPathTable(pointsByColumn)
     IN  /\ ~table.tripped
         /\ Range(flatten(pointsByColumn)) = DOMAIN table.best
         /\ Range(getAdjacent(pointsByColumn, arg.width, OPTIMAL_ENDING_WIDTH))
              \subseteq DOMAIN table.best
         /\ ret.kind # "raised"

\* a mask with no candidate in column 0 and candidates in two later
\* columns: the first of them is recorded without predecessor, the signal
\* is returned
C28_Witness ==
  /\ pc = "extract-done"
  /\ ret.kind = "array"
  /\ arg.pixels[0] = {}
  /\ IsNaN(ret.data[1])
  /\ Cardinality(NonNaNIndices(ret.data)) >= 2

(***************************************************************************)
(* Specification of ecgdigitize.estimateRotationAngle from the lines that  *)
(* vision.houghLines reports.  cv2.HoughLines is called with an angle      *)
(* resolution of pi / 180, so theta is a whole number of such steps,       *)
(* 0..179; the conversion to degrees is carried out in floating point and  *)
(* may land one unit (1/1000 degree here) beside the whole degree.         *)
(***************************************************************************)
MaxLines == 3

HoughThetas == {0, 2, 29, 30, 88, 90, 178}

HoughLine(theta, rounding) == [theta |-> theta, rounding |-> rounding]

\* theta = 0 is converted exactly
HoughLineSet ==
  {HoughLine(l[1], l[2]) : l \in {m \in HoughThetas \X (-1..1) : m[1] > 0 \/ m[2] = 0}}

\* theta * 180 / math.pi, in 1/1000 degree
houghLineToAngle(line) == 1000 * line.theta + line.rounding

\* the offset taken as the signed distance to the nearest multiple of 90
offsetFromNearest(angle) == ((angle + 45000) % 90000) - 45000

\* angle % 90
offsetOf(angle) == angle % 90000

RECURSIVE filterOffsets(_)
\* common.filterList(offsets, lambda offset: abs(offset) < 30)
filterOffsets(offsets) ==
  IF offsets = <<>> THEN <<>>
  ELSE IF Abs(Head(offsets)) < 30000
         THEN <<Head(offsets)>> \o filterOffsets(Tail(offsets))
         ELSE filterOffsets(Tail(offsets))

\* the estimate is a rational number of 1/1000 degree
estimateRotationAngle(lines) ==
  LET angles == [i \in 1..Len(lines) |-> houghLineToAngle(lines[i])]
      offsets == [i \in 1..Len(angles) |-> offsetOf(angles[i])]
      candidates == filterOffsets(offsets)
  IN  IF Len(candidates) > 1
        THEN ValueOf(Rat(SeqSum(candidates), Len(candidates)))
        ELSE NoValue

RotationInit ==
  /\ pc = "rotation-input"
  /\ \E count \in 0..MaxLines :
       \E lines \in [1..count -> HoughLineSet] : arg = lines
  /\ ret = PendingValue
  /\ NoConversion

EstimateRotation ==
  /\ pc = "rotation-input"
  /\ ret' = estimateRotationAngle(arg)
  /\ pc' = "rotation-done"
  /\ UNCHANGED <<parameters, signals, previews, gridSpacings, scaledSignals,
                 paddedSignals, result, arg>>

RotationNext == EstimateRotation

SpecRotation == RotationInit /\ [][RotationNext]_vars

\* the lines whose angle, reduced modulo 90 into [0, 90), is below 30
KeptLines(lines) ==
  {i \in 1..Len(lines) :
     \E q \in 0..1 :
        LET reduced == 1000 * lines[i].theta + lines[i].rounding - 90000 * q
        IN  reduced >= 0 /\ reduced < 30000}

\* the sum of the angles of the lines of `kept`, each reduced modulo 90
RECURSIVE SumOfReduced(_, _)
SumOfReduced(lines, kept) ==
  IF kept = {} THEN 0
  ELSE LET i == CHOOSE k \in kept : TRUE
           angle == 1000 * lines[i].theta + lines[i].rounding
       IN  (IF angle >= 90000 THEN angle - 90000 ELSE angle)
             + SumOfReduced(lines, kept \ {i})

MaxText == 4

Characters == {"-", ".", "5", "7", "a"}

isdigit(x) == x \in {"5", "7"}

RECURSIVE acceptableNumberSignAnywhere(_, _, _, _)
RECURSIVE acceptableNumber(_, _, _, _)

\* _acceptableNumber that takes a "-" wherever it stands
acceptableNumberSignAnywhere(text, negationAllowed, periodAllowed, containsDigits) ==
  IF text = <<>> THEN containsDigits
  ELSE LET x == Head(text) IN
       IF x = "-"
         THEN acceptableNumber(Tail(text), FALSE, periodAllowed, containsDigits)
       ELSE IF x = "."
         THEN periodAllowed /\ acceptableNumber(Tail(text), FALSE, FALSE, containsDigits)
       ELSE IF isdigit(x)
         THEN acceptableNumber(Tail(text), FALSE, periodAllowed, TRUE)
       ELSE FALSE

acceptableNumber(text, negationAllowed, periodAllowed, containsDigits) ==
  IF text = <<>> THEN containsDigits
  ELSE LET x == Head(text) IN
       IF x = "-"
         THEN negationAllowed /\ acceptableNumber(Tail(text), FALSE, periodAllowed, containsDigits)
       ELSE IF x = "."
         THEN periodAllowed /\ acceptableNumber(Tail(text), FALSE, FALSE, containsDigits)
       ELSE IF isdigit(x)
         THEN acceptableNumber(Tail(text), FALSE, periodAllowed, TRUE)
       ELSE FALSE

isFloat(x) == acceptableNumber(x, TRUE, TRUE, FALSE)

FloatInit ==
  /\ pc = "float-input"
  /\ \E length \in 0..MaxText :
       \E text \in [1..length -> Characters] : arg = text
  /\ ret = PendingValue
  /\ NoConversion

ValidateFloat ==
  /\ pc = "float-input"
  /\ ret' = ValueOf(isFloat(arg))
  /\ pc' = "float-done"
  /\ UNCHANGED <<parameters, signals, previews, gridSpacings, scaledSignals,
                 paddedSignals, result, arg>>

FloatNext == ValidateFloat

SpecFloat == FloatInit /\ [][FloatNext]_vars

\* the iterative automaton: its state after the characters 1..i of a text
RECURSIVE AutomatonState(_, _)
AutomatonState(text, i) ==
  IF i = 0 THEN [seenDigit |-> FALSE, periodAllowed |-> TRUE, rejected |-> FALSE]
  ELSE LET s == AutomatonState(text, i - 1)
           x == text[i]
       IN  IF s.rejected THEN s
           ELSE IF x = "-" THEN [s EXCEPT !.rejected = i # 1]
           ELSE IF x = "." THEN [s EXCEPT !.rejected = ~s.periodAllowed,
                                          !.periodAllowed = FALSE]
           ELSE IF isdigit(x) THEN [s EXCEPT !.seenDigit = TRUE]
           ELSE [s EXCEPT !.rejected = TRUE]

AutomatonAccepts(text) ==
  LET s == AutomatonState(text, Len(text))
  IN  ~s.rejected /\ s.seenDigit

\* an optional leading "-", then digits with at most one ".", at least one
\* digit
IsSignedDecimal(text) ==
  /\ \A i \in 1..Len(text) : text[i] = "-" => i = 1
  /\ \A i \in 1..Len(text) : text[i] \in {"-", "."} \/ isdigit(text[i])
  /\ Cardinality({i \in 1..Len(text) : text[i] = "."}) <= 1
  /\ \E i \in 1..Len(text) : isdigit(text[i])

(***************************************************************************)
(* C30.  The recursive validator isFloat accepts exactly the strings that  *)
(* the iterative left-to-right automaton accepts whose state is only       *)
(* "seen digit" and "period allowed", with "-" permitted solely as the     *)
(* first character: an optional leading "-", then digits with at most one  *)
(* ".", at least one digit; every other string is rejected, the empty      *)
(* string, "-", "." and any string with a "-" after the first character or *)
(* a second "." included.                                                  *)
(***************************************************************************)
C30_RecursionEqualsAutomaton ==
  pc = "float-done" =>
     /\ ret.v = AutomatonAccepts(arg)
     /\ ret.v = IsSignedDecimal(arg)
     /\ arg \in {<<>>, <<"-">>, <<".">>} => ret.v = FALSE

\* "-.5" and the like: accepted with a leading "-" and a "."
C30_Witness ==
  /\ pc = "float-done"
  /\ ret.v = TRUE
  /\ Len(arg) >= 3
  /\ arg[1] = "-"
  /\ \E i \in 2..Len(arg) : arg[i] = "."
====
